---- MODULE Spec2Model ----
\* Model of the games GraphQL API: the in-memory store (_db.js), the resolvers
\* of index.js and the nullability declared by schema.js.
EXTENDS Integers, Sequences, FiniteSets, TLC

VARIABLES games, authors, reviews, op, args, ret, gamesBefore

vars == <<games, authors, reviews, op, args, ret, gamesBefore>>

\* ---------------------------------------------------------------- bounds
\* addGame is not offered once the collection holds MaxGames records.
MaxGames == 4

\* Math.random() * 10000 floored: an integer in 0 .. RandomRange - 1.
RandomRange == 10000

\* The values of Math.floor(Math.random() * 10000) that are explored.
RandomSamples == {1, 42}

\* ids that callers pass to game(id:), updateGame and deleteGame.
GameIdArgs == {"1", "2", "42", "9"}

\* ids that callers pass to review(id:) and author(id:).
ReviewIdArgs == {"101", "104", "1"}

AuthorIdArgs == {"202", "1"}

\* AddGameInput values that callers pass to addGame.
AddGameInputs == {[title |-> "Elden Ring", platform |-> <<"PC", "PlayStation", "Xbox">>]}

\* EditGameInput values that callers pass to updateGame: both fields are optional.
EditGameInputs ==
    { <<>>,
      [title |-> "Remastered"],
      [platform |-> <<"PC">>],
      [title |-> "Remastered", platform |-> <<"PC">>] }

\* ---------------------------------------------------------------- seed data
SeedGames ==
    << [id |-> "1", title |-> "Legend of Code", platform |-> <<"PC", "Switch">>],
       [id |-> "2", title |-> "Bug Hunter 3000", platform |-> <<"Xbox", "PlayStation">>],
       [id |-> "3", title |-> "Terminal Quest", platform |-> <<"PC">>] >>

SeedAuthors ==
    << [id |-> "201", name |-> "Alice Devlin", verified |-> TRUE],
       [id |-> "202", name |-> "Bob Coder", verified |-> FALSE],
       [id |-> "203", name |-> "Charlie Script", verified |-> TRUE] >>

SeedReviews ==
    << [id |-> "101", rating |-> 5, content |-> "Absolutely loved the gameplay and story!",
        author_id |-> "201", game_id |-> "1"],
       [id |-> "102", rating |-> 3, content |-> "Fun mechanics but gets repetitive after a while.",
        author_id |-> "202", game_id |-> "2"],
       [id |-> "103", rating |-> 4, content |-> "Solid experience, great graphics and soundtrack.",
        author_id |-> "203", game_id |-> "3"],
       [id |-> "104", rating |-> 2, content |-> "Too many bugs, felt unfinished.",
        author_id |-> "202", game_id |-> "1"] >>

\* ---------------------------------------------------------------- JS values
\* The value a resolver returns when Array.prototype.find matches nothing.
Undefined == [undefined |-> TRUE]

\* No operation has run yet.
NoArgs == <<>>

Digit(d) ==
    CASE d = 0 -> "0" [] d = 1 -> "1" [] d = 2 -> "2" [] d = 3 -> "3" [] d = 4 -> "4"
      [] d = 5 -> "5" [] d = 6 -> "6" [] d = 7 -> "7" [] d = 8 -> "8" [] d = 9 -> "9"

\* Number.prototype.toString() of a non-negative integer: its decimal digits.
RECURSIVE toString(_)
toString(n) == IF n < 10 THEN Digit(n) ELSE toString(n \div 10) \o Digit(n % 10)

\* find that keeps scanning and returns the last match instead of the first.
RECURSIVE findLast(_, _, _)
findLast(arr, field, value) ==
    IF arr = <<>> THEN Undefined
    ELSE IF arr[Len(arr)][field] = value THEN arr[Len(arr)]
    ELSE findLast(SubSeq(arr, 1, Len(arr) - 1), field, value)

\* Array.prototype.find with the callback (x) => x[field] === value:
\* scans from the front and returns the first match, undefined when none.
RECURSIVE find(_, _, _)
find(arr, field, value) ==
    IF arr = <<>> THEN Undefined
    ELSE IF Head(arr)[field] = value THEN Head(arr)
    ELSE find(Tail(arr), field, value)

\* filter that collects the matches with unshift instead of push.
RECURSIVE filterEqReversed(_, _, _)
filterEqReversed(arr, field, value) ==
    IF arr = <<>> THEN <<>>
    ELSE IF Head(arr)[field] = value
         THEN filterEqReversed(Tail(arr), field, value) \o <<Head(arr)>>
         ELSE filterEqReversed(Tail(arr), field, value)

\* Array.prototype.filter with the callback (x) => x[field] === value.
RECURSIVE filterEq(_, _, _)
filterEq(arr, field, value) ==
    IF arr = <<>> THEN <<>>
    ELSE IF Head(arr)[field] = value
         THEN <<Head(arr)>> \o filterEq(Tail(arr), field, value)
         ELSE filterEq(Tail(arr), field, value)

\* filter whose callback tests === where deleteGame needs !==.
RECURSIVE filterNeInverted(_, _, _)
filterNeInverted(arr, field, value) ==
    IF arr = <<>> THEN <<>>
    ELSE IF Head(arr)[field] = value
         THEN <<Head(arr)>> \o filterNeInverted(Tail(arr), field, value)
         ELSE filterNeInverted(Tail(arr), field, value)

\* removal of the first matching record only (indexOf + splice).
RECURSIVE filterNeFirstOnly(_, _, _)
filterNeFirstOnly(arr, field, value) ==
    IF arr = <<>> THEN <<>>
    ELSE IF Head(arr)[field] = value THEN Tail(arr)
    ELSE <<Head(arr)>> \o filterNeFirstOnly(Tail(arr), field, value)

\* removal loop that stops one short (i < length - 1): the last record is
\* kept without being tested.
RECURSIVE filterNeSkipsLast(_, _, _)
filterNeSkipsLast(arr, field, value) ==
    IF Len(arr) <= 1 THEN arr
    ELSE IF Head(arr)[field] # value
         THEN <<Head(arr)>> \o filterNeSkipsLast(Tail(arr), field, value)
         ELSE filterNeSkipsLast(Tail(arr), field, value)

\* Array.prototype.filter with the callback (x) => x[field] !== value.
RECURSIVE filterNe(_, _, _)
filterNe(arr, field, value) ==
    IF arr = <<>> THEN <<>>
    ELSE IF Head(arr)[field] # value
         THEN <<Head(arr)>> \o filterNe(Tail(arr), field, value)
         ELSE filterNe(Tail(arr), field, value)

\* Object spread { ...a, ...b }: the keys of both, b's value where b has the key.
spread(a, b) ==
    [f \in (DOMAIN a) \cup (DOMAIN b) |-> IF f \in DOMAIN b THEN b[f] ELSE a[f]]

\* map callback that rebuilds the matching game from the edits alone: a field
\* the edits omit is reset instead of kept.
mergeEditsFullReplace(game, id, edits) ==
    IF game.id = id
    THEN [ id |-> game.id,
           title |-> IF "title" \in DOMAIN edits THEN edits.title ELSE "",
           platform |-> IF "platform" \in DOMAIN edits THEN edits.platform ELSE <<>> ]
    ELSE game

\* map callback without the id test: every game gets the edits.
mergeEditsEveryGame(game, id, edits) == spread(game, edits)

\* The callback of updateGame's map: merge the edits into the matching game.
mergeEdits(game, id, edits) ==
    IF game.id = id THEN spread(game, edits) ELSE game

\* Array.prototype.map of updateGame over the games array.
mapEdits(arr, id, edits) ==
    [i \in DOMAIN arr |-> mergeEdits(arr[i], id, edits)]

\* The id addGame generates from the floored random number n.
generateId(n) == toString(n)

\* The object addGame builds: { ...args.game, id: <generated> }.
newGame(input, n) == spread(input, [id |-> generateId(n)])

\* ---------------------------------------------------------------- state
Init ==
    /\ games = SeedGames
    /\ authors = SeedAuthors
    /\ reviews = SeedReviews
    /\ op = "init"
    /\ args = NoArgs
    /\ ret = Undefined
    /\ gamesBefore = SeedGames

\* A resolver ran: record which, with what arguments, and what it returned.
Returned(name, a, r) ==
    /\ op' = name
    /\ args' = a
    /\ ret' = r
    /\ gamesBefore' = games

Elems(s) == {s[i] : i \in DOMAIN s}

\* ---------------------------------------------------------------- Query
\* Query.games that returns db.games.reverse(): reverses the array in place.
Query_gamesReverseInPlace ==
    /\ games' = [i \in DOMAIN games |-> games[Len(games) + 1 - i]]
    /\ Returned("Query.games", NoArgs, games')
    /\ UNCHANGED <<authors, reviews>>

Query_games ==
    /\ Returned("Query.games", NoArgs, games)
    /\ UNCHANGED <<games, authors, reviews>>

Query_reviews ==
    /\ Returned("Query.reviews", NoArgs, reviews)
    /\ UNCHANGED <<games, authors, reviews>>

Query_authors ==
    /\ Returned("Query.authors", NoArgs, authors)
    /\ UNCHANGED <<games, authors, reviews>>

Query_review ==
    \E id \in ReviewIdArgs :
        /\ Returned("Query.review", [id |-> id], find(reviews, "id", id))
        /\ UNCHANGED <<games, authors, reviews>>

Query_game ==
    \E id \in GameIdArgs :
        /\ Returned("Query.game", [id |-> id], find(games, "id", id))
        /\ UNCHANGED <<games, authors, reviews>>

Query_author ==
    \E id \in AuthorIdArgs :
        /\ Returned("Query.author", [id |-> id], find(authors, "id", id))
        /\ UNCHANGED <<games, authors, reviews>>

\* ---------------------------------------------------------------- nested resolvers
\* The parent of Game.reviews is a Game the engine resolved before: a record of
\* the collection, or the record an earlier mutation returned.
Game_reviews ==
    \E parent \in Elems(games) \cup {[id |-> i] : i \in GameIdArgs} :
        /\ Returned("Game.reviews", [parent |-> parent],
                    filterEq(reviews, "game_id", parent.id))
        /\ UNCHANGED <<games, authors, reviews>>

Author_reviews ==
    \E parent \in Elems(authors) \cup {[id |-> i] : i \in AuthorIdArgs} :
        /\ Returned("Author.reviews", [parent |-> parent],
                    filterEq(reviews, "author_id", parent.id))
        /\ UNCHANGED <<games, authors, reviews>>

Review_author ==
    \E parent \in Elems(reviews) :
        /\ Returned("Review.author", [parent |-> parent],
                    find(authors, "id", parent.author_id))
        /\ UNCHANGED <<games, authors, reviews>>

Review_game ==
    \E parent \in Elems(reviews) :
        /\ Returned("Review.game", [parent |-> parent],
                    find(games, "id", parent.game_id))
        /\ UNCHANGED <<games, authors, reviews>>

\* ---------------------------------------------------------------- Mutation
\* deleteGame that also drops the reviews of the deleted game.
deleteGameCascade ==
    \E id \in GameIdArgs :
        /\ games' = filterNe(games, "id", id)
        /\ reviews' = filterNe(reviews, "game_id", id)
        /\ Returned("deleteGame", [id |-> id], games')
        /\ UNCHANGED authors

deleteGame ==
    \E id \in GameIdArgs :
        /\ games' = filterNe(games, "id", id)
        /\ Returned("deleteGame", [id |-> id], games')
        /\ UNCHANGED <<authors, reviews>>

\* addGame that puts the new game in front (unshift) instead of at the end.
addGameUnshift ==
    \E input \in AddGameInputs, n \in RandomSamples :
        /\ n < RandomRange
        /\ Len(games) < MaxGames
        /\ games' = <<newGame(input, n)>> \o games
        /\ Returned("addGame", [game |-> input], newGame(input, n))
        /\ UNCHANGED <<authors, reviews>>

addGame ==
    \E input \in AddGameInputs, n \in RandomSamples :
        /\ n < RandomRange
        /\ Len(games) < MaxGames
        /\ games' = Append(games, newGame(input, n))
        /\ Returned("addGame", [game |-> input], newGame(input, n))
        /\ UNCHANGED <<authors, reviews>>

updateGame ==
    \E id \in GameIdArgs, edits \in EditGameInputs :
        /\ games' = mapEdits(games, id, edits)
        /\ Returned("updateGame", [id |-> id, edits |-> edits], find(games', "id", id))
        /\ UNCHANGED <<authors, reviews>>

\* ---------------------------------------------------------------- request execution
\* The JSON null of a response.
Null == [null |-> TRUE]

\* schema.js: "game: Game!" and "author: Author!" on type Review.
ReviewGameNonNull == TRUE

ReviewAuthorNonNull == TRUE

\* A resolver's undefined is a null field value.
fieldValue(v) == IF v = Undefined THEN Null ELSE v

\* The field errors of the selection set { id rating content game {...} author {...} }
\* on the Review r: a non-null field whose resolver yields null is a field error.
reviewFieldErrors(r) ==
    (IF ReviewGameNonNull /\ find(games, "id", r.game_id) = Undefined
     THEN <<"Cannot return null for non-nullable field Review.game.">> ELSE <<>>)
    \o
    (IF ReviewAuthorNonNull /\ find(authors, "id", r.author_id) = Undefined
     THEN <<"Cannot return null for non-nullable field Review.author.">> ELSE <<>>)

\* The completed value of a Review r: a field error in a non-null field makes
\* the enclosing object null; "review: Review" and the items of "reviews: [Review]"
\* are nullable, so the null stops there.
completeReview(r) ==
    IF reviewFieldErrors(r) # <<>> THEN Null
    ELSE [ id |-> r.id, rating |-> r.rating, content |-> r.content,
           game |-> fieldValue(find(games, "id", r.game_id)),
           author |-> fieldValue(find(authors, "id", r.author_id)) ]

\* Response to { review(id: $id) { id rating content game {...} author {...} } }.
reviewResponse(id) ==
    LET r == find(reviews, "id", id) IN
    IF r = Undefined
    THEN [data |-> [review |-> Null], errors |-> <<>>]
    ELSE [data |-> [review |-> completeReview(r)], errors |-> reviewFieldErrors(r)]

RECURSIVE allFieldErrors(_)
allFieldErrors(rs) ==
    IF rs = <<>> THEN <<>> ELSE reviewFieldErrors(Head(rs)) \o allFieldErrors(Tail(rs))

\* Response to { reviews { id rating content game {...} author {...} } }.
reviewsResponse ==
    [ data |-> [reviews |-> [i \in DOMAIN reviews |-> completeReview(reviews[i])]],
      errors |-> allFieldErrors(reviews) ]

Request_review ==
    \E id \in ReviewIdArgs :
        /\ Returned("request review", [id |-> id], reviewResponse(id))
        /\ UNCHANGED <<games, authors, reviews>>

Request_reviews ==
    /\ Returned("request reviews", NoArgs, reviewsResponse)
    /\ UNCHANGED <<games, authors, reviews>>

Next ==
    \/ Query_games
    \/ Query_reviews
    \/ Query_authors
    \/ Query_review
    \/ Query_game
    \/ Query_author
    \/ Game_reviews
    \/ Author_reviews
    \/ Review_author
    \/ Review_game
    \/ deleteGame
    \/ addGame
    \/ updateGame
    \/ Request_review
    \/ Request_reviews

Spec == Init /\ [][Next]_vars

\* ---------------------------------------------------------------- properties
\* The positions of arr whose record has the given value in the given field.
Matches(arr, field, value) == {i \in DOMAIN arr : arr[i][field] = value}

Min(S) == CHOOSE m \in S : \A k \in S : m <= k

\* The mutation that ran had an id argument carried by some game before it ran.
IdWasPresent == Matches(gamesBefore, "id", args.id) # {}

\* C1: the ids of the records in the games collection are pairwise distinct in
\* every reachable state; addGame never hands out the id of an existing game.
GameIdsUnique ==
    /\ \A i, j \in DOMAIN games : i # j => games[i].id # games[j].id
    /\ op = "addGame" => Matches(gamesBefore, "id", ret.id) = {}

\* C2: addGame returns a game with a non-empty id and the given title and
\* platform; Query.game with that id right after returns an equal record, and
\* Query.games contains it.
AddGameRoundTrip ==
    op = "addGame" =>
        /\ ret.id # ""
        /\ ret.title = args.game.title
        /\ ret.platform = args.game.platform
        /\ find(games, "id", ret.id) = ret
        /\ ret \in Elems(games)

\* The value updateGame must leave in a field of a matching game.
Edited(before, edits, field) ==
    IF field \in DOMAIN edits THEN edits[field] ELSE before[field]

\* C3: updateGame on a present id replaces only the fields present in edits in
\* the records carrying that id, keeps their id and other fields, leaves every
\* other game unchanged and returns the updated record; on the seed data
\* updateGame("1", {title: "Remastered"}) yields the seed game with the new title.
UpdateGameMergesOnlyEdits ==
    (op = "updateGame" /\ IdWasPresent) =>
        /\ DOMAIN games = DOMAIN gamesBefore
        /\ \A i \in DOMAIN gamesBefore :
              IF gamesBefore[i].id = args.id
              THEN /\ DOMAIN games[i] = {"id", "title", "platform"}
                   /\ games[i].id = gamesBefore[i].id
                   /\ games[i].title = Edited(gamesBefore[i], args.edits, "title")
                   /\ games[i].platform = Edited(gamesBefore[i], args.edits, "platform")
              ELSE games[i] = gamesBefore[i]
        /\ ret = games[Min(Matches(gamesBefore, "id", args.id))]
        /\ (gamesBefore = SeedGames /\ args.id = "1" /\ args.edits = [title |-> "Remastered"])
              => ret = [id |-> "1", title |-> "Remastered", platform |-> <<"PC", "Switch">>]

UpdateGameMergesOnlyEditsWitness ==
    /\ op = "updateGame"
    /\ gamesBefore = SeedGames
    /\ args = [id |-> "1", edits |-> [title |-> "Remastered"]]
    /\ ret.title = "Remastered"
    /\ games[2] = SeedGames[2]

\* C4: deleteGame of a present id removes exactly one record and returns the
\* resulting collection, one shorter than before; a second deleteGame with the
\* same id changes nothing and returns the same contents.
DeleteGameRemovesExactlyOne ==
    [][ op' = "deleteGame" =>
          /\ Matches(games, "id", args'.id) # {} =>
                (Len(games') = Len(games) - 1 /\ ret' = games')
          /\ (op = "deleteGame" /\ args' = args) =>
                (Len(games') = Len(games) /\ ret' = ret) ]_vars

\* C5: updateGame and deleteGame with an id that matches no game leave the
\* contents and order of the games collection unchanged; updateGame returns
\* undefined and deleteGame returns the whole unchanged collection.
UnknownIdIsNoOp ==
    (op \in {"updateGame", "deleteGame"} /\ ~IdWasPresent) =>
        /\ games = gamesBefore
        /\ op = "updateGame" => ret = Undefined
        /\ op = "deleteGame" => ret = gamesBefore

UnknownIdIsNoOpWitness ==
    /\ op = "updateGame"
    /\ args = [id |-> "9", edits |-> [title |-> "Remastered"]]
    /\ ret = Undefined
    /\ Len(games) = 3

\* C6: deleteGame does not cascade: it leaves the reviews collection unchanged,
\* every review that referenced the deleted id resolves Review.game to
\* undefined, and Game.reviews of every remaining game returns what it
\* returned before the delete.
DeleteGameDoesNotCascade ==
    [][ op' = "deleteGame" =>
          /\ reviews' = reviews
          /\ \A i \in DOMAIN reviews' :
                reviews'[i].game_id = args'.id =>
                    find(games', "id", reviews'[i].game_id) = Undefined
          /\ \A k \in DOMAIN games' :
                filterEq(reviews', "game_id", games'[k].id)
                    = filterEq(reviews, "game_id", games'[k].id) ]_vars

DeleteGameDoesNotCascadeWitness ==
    /\ op = "deleteGame"
    /\ args.id = "1"
    /\ Matches(gamesBefore, "id", "1") # {}
    /\ find(games, "id", reviews[1].game_id) = Undefined
    /\ games # <<>>

\* C7: a review whose game (or author) is no longer in the store gets null in
\* that nested field only; the review's other fields are still delivered and
\* the request does not fail, given that Review.game and Review.author are
\* declared non-null.
DanglingReviewStillDelivered ==
    (op = "request review" /\ find(reviews, "id", args.id) # Undefined) =>
        LET r == find(reviews, "id", args.id) IN
        /\ ret.errors = <<>>
        /\ ret.data.review # Null
        /\ ret.data.review.id = r.id
        /\ ret.data.review.rating = r.rating
        /\ ret.data.review.content = r.content
        /\ ret.data.review.game = fieldValue(find(games, "id", r.game_id))
        /\ ret.data.review.author = fieldValue(find(authors, "id", r.author_id))

\* C8: the authors and reviews collections always hold exactly the seed
\* records in the seed order.
AuthorsAndReviewsImmutable ==
    /\ authors = SeedAuthors
    /\ reviews = SeedReviews

AuthorsAndReviewsImmutableWitness ==
    /\ op = "updateGame"
    /\ games # gamesBefore
    /\ Len(games) = MaxGames
    /\ Len(games) > Cardinality({games[i].id : i \in DOMAIN games})
    /\ authors = SeedAuthors
    /\ reviews = SeedReviews

\* res holds exactly the records of arr with the value in the field, in arr's order.
IsFilterOf(res, arr, field, value) ==
    LET idx == Matches(arr, field, value)
        Rank(i) == Cardinality({j \in idx : j <= i})
    IN /\ DOMAIN res = 1 .. Cardinality(idx)
       /\ \A i \in idx : res[Rank(i)] = arr[i]

\* C9: Game.reviews returns exactly the reviews whose game_id is the parent's
\* id, in review insertion order (an empty sequence when none); Author.reviews
\* does the same on author_id; for the game "1" the result is reviews "101", "104".
ReviewsForFiltersInOrder ==
    /\ op = "Game.reviews" =>
          /\ IsFilterOf(ret, reviews, "game_id", args.parent.id)
          /\ Matches(reviews, "game_id", args.parent.id) = {} => ret = <<>>
          /\ args.parent.id = "1" =>
                [k \in DOMAIN ret |-> ret[k].id] = <<"101", "104">>
    /\ op = "Author.reviews" =>
          /\ IsFilterOf(ret, reviews, "author_id", args.parent.id)
          /\ Matches(reviews, "author_id", args.parent.id) = {} => ret = <<>>

ReviewsForFiltersInOrderWitness ==
    /\ op = "Game.reviews"
    /\ args.parent = [id |-> "1"]
    /\ Len(ret) = 2
    /\ ret[1].id = "101"

\* ret is what a lookup by id in arr must return: the first record carrying
\* the id, undefined when no record carries it.
IsFirstMatch(arr, id) ==
    IF Matches(arr, "id", id) = {} THEN ret = Undefined
    ELSE ret = arr[Min(Matches(arr, "id", id))]

\* C10: Query.game returns the game with the given id when one is in the
\* collection, the first in insertion order when several share the id, and
\* undefined when none has it; likewise Query.author and Query.review.
FindByIdFirstMatch ==
    /\ op = "Query.game" => IsFirstMatch(games, args.id)
    /\ op = "Query.author" => IsFirstMatch(authors, args.id)
    /\ op = "Query.review" => IsFirstMatch(reviews, args.id)

FindByIdFirstMatchWitness ==
    /\ op = "Query.game"
    /\ Cardinality(Matches(games, "id", args.id)) > 1
    /\ games[Min(Matches(games, "id", args.id))]
          # games[CHOOSE m \in Matches(games, "id", args.id) :
                      \A k \in Matches(games, "id", args.id) : k <= m]
    /\ ret = games[Min(Matches(games, "id", args.id))]

\* C11: a second identical updateGame on a present id returns a record equal to
\* the first call's and leaves the games collection as the first call left
\* it; the fields the edits omit still have the value they had before the
\* first call.
UpdateGameIdempotent ==
    [][ ( /\ op = "updateGame"
          /\ op' = "updateGame"
          /\ args' = args
          /\ Matches(gamesBefore, "id", args.id) # {} ) =>
          /\ ret' = ret
          /\ games' = games
          /\ \A i \in Matches(gamesBefore, "id", args.id) :
                \A f \in {"id", "title", "platform"} \ DOMAIN args.edits :
                    games'[i][f] = gamesBefore[i][f] ]_vars

\* The state after a repeated updateGame("1", {title: "Remastered"}): the call
\* found the title already replaced and the platform still the seed's.
UpdateGameIdempotentWitness ==
    /\ op = "updateGame"
    /\ args = [id |-> "1", edits |-> [title |-> "Remastered"]]
    /\ gamesBefore[1].title = "Remastered"
    /\ games = gamesBefore
    /\ ret = [id |-> "1", title |-> "Remastered", platform |-> <<"PC", "Switch">>]

\* res holds the records of arr whose id differs from the given one, each
\* at the rank it had among them in arr.
IsRestOf(res, arr, id) ==
    LET idx == {i \in DOMAIN arr : arr[i].id # id}
        Rank(i) == Cardinality({j \in idx : j <= i})
    IN /\ DOMAIN res = 1 .. Cardinality(idx)
       /\ \A i \in idx : res[Rank(i)] = arr[i]

\* C12: the games collection keeps insertion order under every mutation:
\* addGame puts the new game at the end and leaves the others in place,
\* updateGame keeps every game at its position, deleteGame keeps the
\* remaining games in their previous relative order.
GamesKeepInsertionOrder ==
    /\ op = "addGame" =>
          /\ Len(games) = Len(gamesBefore) + 1
          /\ SubSeq(games, 1, Len(gamesBefore)) = gamesBefore
          /\ games[Len(games)] = ret
    /\ op = "updateGame" =>
          /\ DOMAIN games = DOMAIN gamesBefore
          /\ \A i \in DOMAIN games : games[i].id = gamesBefore[i].id
    /\ op = "deleteGame" => IsRestOf(games, gamesBefore, args.id)

\* deleteGame("2") took the middle game out of a collection that had a game
\* added at its end: the neighbours closed up in their order.
GamesKeepInsertionOrderWitness ==
    /\ op = "deleteGame"
    /\ args.id = "2"
    /\ Len(gamesBefore) = 4
    /\ gamesBefore[2].id = "2"
    /\ gamesBefore[4].title = "Elden Ring"
    /\ Len(games) = 3
    /\ games[1].id = "1"
    /\ games[2].id = "3"
    /\ games[3] = gamesBefore[4]

\* The names of the read resolvers.
ReadOps ==
    { "Query.games", "Query.reviews", "Query.authors",
      "Query.review", "Query.game", "Query.author",
      "Game.reviews", "Author.reviews", "Review.author", "Review.game" }

\* C13: every read resolver leaves the three collections unchanged, and a
\* read repeated with the same arguments, with no mutation in between,
\* returns an equal result.
ReadsArePure ==
    [][ /\ op' \in ReadOps =>
              (games' = games /\ authors' = authors /\ reviews' = reviews)
        /\ (op \in ReadOps /\ op' = op /\ args' = args) => ret' = ret ]_vars

\* Query.game("1") ran on a store that mutations had changed, found the game
\* and left the collection as it was.
ReadsArePureWitness ==
    /\ op = "Query.game"
    /\ args.id = "1"
    /\ ret # Undefined
    /\ games = gamesBefore
    /\ games # SeedGames
    /\ Len(games) = MaxGames

\* C14: after deleteGame(id) no record with that id remains in the games
\* collection, also when several records carried it, so Query.game(id) finds
\* nothing; an id that no game carries stays absent until an addGame
\* generates it.
DeletedIdStaysAbsent ==
    [][ /\ op' = "deleteGame" =>
              /\ Matches(games', "id", args'.id) = {}
              /\ find(games', "id", args'.id) = Undefined
        /\ games' # games =>
              \A k \in DOMAIN games' :
                  Matches(games, "id", games'[k].id) = {}
                      => (op' = "addGame" /\ ret'.id = games'[k].id) ]_vars

\* deleteGame("1") ran on a collection in which two records carried id "1"
\* and removed both.
DeletedIdStaysAbsentWitness ==
    /\ op = "deleteGame"
    /\ args.id = "1"
    /\ Cardinality(Matches(gamesBefore, "id", "1")) = 2
    /\ Len(games) = Len(gamesBefore) - 2
    /\ find(games, "id", "1") = Undefined

\* C15: the game addGame just created has no reviews: Game.reviews of it is
\* empty and no review's Review.game resolves to it, that is the generated
\* id is the game_id of no review, dangling reviews included.
NewGameHasNoReviews ==
    op = "addGame" =>
        /\ filterEq(reviews, "game_id", ret.id) = <<>>
        /\ \A i \in DOMAIN reviews : find(games, "id", reviews[i].game_id) # ret
        /\ Matches(reviews, "game_id", ret.id) = {}

====
